---- MODULE Spec2Model ----
(***************************************************************************)
(* Model of src/example.py: the plain-math-to-LaTeX converter              *)
(* (convert_plain_math_to_latex) and the HTML sanitizer built on it        *)
(* (apply_latex_conversion_to_html, clean_html_and_extract_math_text).     *)
(*                                                                         *)
(* A Python str is a sequence of code points.  A code point is a TLA+      *)
(* string: an ASCII character stands for itself ("a", "/", "{"), every     *)
(* other code point is written by its U+ number ("U221A" is the root sign).*)
(***************************************************************************)
EXTENDS Integers, Sequences, FiniteSets

\* ------------------------------------------------------------------------
\* Code points and character classes of the regular expressions
\* ------------------------------------------------------------------------
BS == "\\"
ZWSP == "U200B"
ZWNJ == "U200C"
ZWJ == "U200D"
NBSP == "U00A0"
ALPHA == "U03B1"
BETA == "U03B2"
GAMMA == "U03B3"
THETA == "U03B8"
OMEGA == "U03A9"
PI == "U03C0"
ARROW == "U2192"
INCREMENT == "U2206"
DIVSLASH == "U2215"
ROOT == "U221A"
RING == "U2218"
DEG == "U00B0"
TAB == "TAB"
NL == "NL"

Lower == {"a", "b", "c", "d", "e", "f", "g", "h", "i", "j", "k", "l", "m",
          "n", "o", "p", "q", "r", "s", "t", "u", "v", "w", "x", "y", "z"}
Upper == {"A", "B", "C", "D", "E", "F", "G", "H", "I", "J", "K", "L", "M",
          "N", "O", "P", "Q", "R", "S", "T", "U", "V", "W", "X", "Y", "Z"}
\* [a-zA-Z]
Letters == Lower \cup Upper
\* \d
Digits == {"0", "1", "2", "3", "4", "5", "6", "7", "8", "9"}
\* [a-zA-Z0-9]
AlNum == Letters \cup Digits
\* \s (the no-break space is removed before any \s is applied)
Whitespace == {" ", TAB, NL}
\* \w, as \b reads it: alphanumerics (the Greek letters included) and "_"
WordChars == AlNum \cup {"_", ALPHA, BETA, GAMMA, THETA, OMEGA, PI}
\* [\u200b\u200c\u200d\u00a0]
Invisible == {ZWSP, ZWNJ, ZWJ, NBSP}
\* [a-zA-Z0-9\(\)\-]
FracChars == AlNum \cup {"(", ")", "-"}
\* the slash class between numerator and denominator: division slash or "/"
FracSlash == {DIVSLASH, "/"}
\* [a-zA-Z0-9\(\) {}+-]
RootChars == AlNum \cup {"(", ")", " ", "{", "}", "+", "-"}
\* [=+\-*/\d]
WrapChars == Digits \cup {"=", "+", "-", "*", "/"}

\* ------------------------------------------------------------------------
\* String primitives
\* ------------------------------------------------------------------------
\* s[a:b] with 1-based a and exclusive b
Slice(s, a, b) == SubSeq(s, a, b - 1)

\* s.startswith(w, i-1)
StartsWithAt(s, i, w) == i + Len(w) - 1 <= Len(s) /\ SubSeq(s, i, i + Len(w) - 1) = w

startswith(s, w) == StartsWithAt(s, 1, w)

endswith(s, w) == Len(w) <= Len(s) /\ SubSeq(s, Len(s) - Len(w) + 1, Len(s)) = w

\* the end (exclusive) of the longest run of characters of class C from i:
\* what a greedy C* consumes
RECURSIVE RunEnd(_, _, _)
RunEnd(s, i, C) == IF i <= Len(s) /\ s[i] \in C THEN RunEnd(s, i + 1, C) ELSE i

\* re.search of a literal: does w occur in s
Contains(s, w) == \E i \in 1..Len(s) : StartsWithAt(s, i, w)

\* The statements of a function run one after the other, each on the value
\* the one before it left: {Op(x) : x \in S} is the value after a statement
\* `x = Op(x)`, when S holds the value before it, and The(S) is that value.
The(S) == CHOOSE r \in S : TRUE

\* the least of a set of positions of s, or Len(s) + 1 when there is none
FirstOf(s, hits) ==
  IF hits = {} THEN Len(s) + 1 ELSE CHOOSE j \in hits : \A k \in hits : j <= k

\* the first position from i on that holds a character of class C, or
\* Len(s) + 1: where a scan for a pattern that begins with such a character
\* tries its next match (at the positions between, the pattern cannot match)
NextIn(s, i, C) == FirstOf(s, {j \in i..Len(s) : s[j] \in C})

\* str.replace(old, new) from position i on: leftmost, non-overlapping
RECURSIVE replaceFrom(_, _, _, _)
replaceFrom(s, i, old, new) ==
  LET j == NextIn(s, i, {old[1]})
  IN IF j > Len(s) THEN Slice(s, i, j)
     ELSE IF StartsWithAt(s, j, old)
     THEN Slice(s, i, j) \o new \o replaceFrom(s, j + Len(old), old, new)
     ELSE Slice(s, i, j + 1) \o replaceFrom(s, j + 1, old, new)

replace(s, old, new) == replaceFrom(s, 1, old, new)

\* re.sub(r'[\u200b\u200c\u200d\u00a0]', '', text)
RemoveInvisible(s) == SelectSeq(s, LAMBDA c : c \notin Invisible)

RECURSIVE lstrip(_)
lstrip(s) == IF s # <<>> /\ Head(s) \in Whitespace THEN lstrip(Tail(s)) ELSE s

RECURSIVE rstrip(_)
rstrip(s) ==
  IF s # <<>> /\ s[Len(s)] \in Whitespace THEN rstrip(SubSeq(s, 1, Len(s) - 1)) ELSE s

strip(s) == rstrip(lstrip(s))

\* \b at the gap before position p
IsWordAt(s, p) == p >= 1 /\ p <= Len(s) /\ s[p] \in WordChars

WordBoundary(s, p) == IsWordAt(s, p - 1) # IsWordAt(s, p)

\* ------------------------------------------------------------------------
\* Literals of convert_plain_math_to_latex
\* ------------------------------------------------------------------------
OpenDelim == <<BS, "(">>
CloseDelim == <<BS, ")">>
W_alpha == <<BS, "a", "l", "p", "h", "a">>
W_beta == <<BS, "b", "e", "t", "a">>
W_gamma == <<BS, "g", "a", "m", "m", "a">>
W_theta == <<BS, "t", "h", "e", "t", "a">>
W_Omega == <<BS, "O", "m", "e", "g", "a">>
W_pi == <<BS, "p", "i">>
W_vec == <<BS, "v", "e", "c">>
W_hat == <<BS, "h", "a", "t">>
W_Delta == <<BS, "D", "e", "l", "t", "a">>
W_frac == <<BS, "f", "r", "a", "c">>
W_sqrt == <<BS, "s", "q", "r", "t">>
W_degree == <<"^", "{", BS, "c", "i", "r", "c", "}">>
L_sqrt == <<"s", "q", "r", "t">>
L_circ == <<"c", "i", "r", "c">>
L_tan == <<"t", "a", "n">>
L_sin == <<"s", "i", "n">>
L_cos == <<"c", "o", "s">>
L_log == <<"l", "o", "g">>
L_ln == <<"l", "n">>
L_vec == <<"v", "e", "c">>
L_hat == <<"h", "a", "t">>
L_frac == <<"f", "r", "a", "c">>
\* the alternatives of the negative lookahead of the subscript pattern
UnitWords == {<<"m", "H">>, <<"m", "A">>, <<"m", "s">>, <<"c", "m">>, <<"k", "g">>,
              <<"g", "m">>, <<"r", "a", "d">>, <<"m", "o", "l">>, <<"n", "m">>,
              <<"e", "V">>, <<"a", "t", "m">>}
\* the alternatives after the backslash in the wrapping heuristic
WrapCommands == {L_sqrt, L_vec, L_hat, L_frac, L_tan, L_sin, L_cos, L_log, L_ln}

\* ------------------------------------------------------------------------
\* The rewrites of convert_plain_math_to_latex, in the order of the code
\* ------------------------------------------------------------------------
\* 1. the nine str.replace calls
ReplaceSymbols(s) ==
  LET t1 == replace(s, <<ALPHA>>, W_alpha)
      t2 == replace(t1, <<BETA>>, W_beta)
      t3 == replace(t2, <<GAMMA>>, W_gamma)
      t4 == replace(t3, <<THETA>>, W_theta)
      t5 == replace(t4, <<OMEGA>>, W_Omega)
      t6 == replace(t5, <<PI>>, W_pi)
      t7 == replace(t6, <<ARROW>>, W_vec)
      t8 == replace(t7, <<"^">>, W_hat)
  IN replace(t8, <<INCREMENT>>, W_Delta)

\* 2. ([a-zA-Z0-9\(\)\-]+)\s*[U+2215/]\s*([a-zA-Z0-9\(\)\-]+) matched at i:
\* <<end of group 1, start of group 2, end of the match>>, or <<>> when the
\* pattern does not match at i. The three classes are disjoint, so the greedy
\* runs are the only way to match.
FracMatch(s, i) ==
  LET a == RunEnd(s, i, FracChars)
      b == RunEnd(s, a, Whitespace)
      c == RunEnd(s, b + 1, Whitespace)
      d == RunEnd(s, c, FracChars)
  IN IF a > i /\ b <= Len(s) /\ s[b] \in FracSlash /\ d > c THEN <<a, c, d>> ELSE <<>>

RECURSIVE SubFractionsFrom(_, _)
SubFractionsFrom(s, i) ==
  LET j == NextIn(s, i, FracChars)
      m == FracMatch(s, j)
  IN IF j > Len(s) THEN Slice(s, i, j)
     ELSE IF m # <<>>
     THEN Slice(s, i, j) \o W_frac \o <<"{">> \o Slice(s, j, m[1]) \o <<"}", "{">>
          \o Slice(s, m[2], m[3]) \o <<"}">> \o SubFractionsFrom(s, m[3])
     ELSE Slice(s, i, j + 1) \o SubFractionsFrom(s, j + 1)

SubFractions(s) == SubFractionsFrom(s, 1)

\* 3. \s*([a-zA-Z0-9\(\) {}+-]+) matched at p, the position after the root
\* sign or after the word sqrt: <<start of group 1, end of the match>>, or
\* <<>>. The space is in both classes: \s* gives back what the group needs,
\* the longest \s* first.
RootArgMatch(s, p) ==
  LET w == RunEnd(s, p, Whitespace)
      starts == {k \in p..w : RunEnd(s, k, RootChars) > k}
      k == CHOOSE x \in starts : \A y \in starts : y <= x
  IN IF starts = {} THEN <<>> ELSE <<k, RunEnd(s, k, RootChars)>>

RECURSIVE SubRootsFrom(_, _, _)
SubRootsFrom(s, i, prefix) ==
  LET j == NextIn(s, i, {prefix[1]})
      m == IF StartsWithAt(s, j, prefix) THEN RootArgMatch(s, j + Len(prefix)) ELSE <<>>
  IN IF j > Len(s) THEN Slice(s, i, j)
     ELSE IF m # <<>>
     THEN Slice(s, i, j) \o W_sqrt \o <<"{">> \o Slice(s, m[1], m[2]) \o <<"}">>
          \o SubRootsFrom(s, m[2], prefix)
     ELSE Slice(s, i, j + 1) \o SubRootsFrom(s, j + 1, prefix)

\* re.sub(r'U+221A\s*(...)', r'\\sqrt{\1}', text)
SubRootSign(s) == SubRootsFrom(s, 1, <<ROOT>>)

\* re.sub(r'sqrt\s*(...)', r'\\sqrt{\1}', text)
SubRootWord(s) == SubRootsFrom(s, 1, L_sqrt)

\* 4a. (\d+)\s*circ|(\d+)U+00B0|(\d+)U+2218 matched at i: the end of the
\* match, or 0
DegreeMatch(s, i) ==
  LET d == RunEnd(s, i, Digits)
      w == RunEnd(s, d, Whitespace)
  IN IF d = i THEN 0
     ELSE IF StartsWithAt(s, w, L_circ) THEN w + Len(L_circ)
     ELSE IF d <= Len(s) /\ s[d] = DEG THEN d + 1
     ELSE IF d <= Len(s) /\ s[d] = RING THEN d + 1
     ELSE 0

\* the replacement template is r'^{\\circ}': it names no group
DegreeReplacement(s, i, e) == W_degree

RECURSIVE SubDegreesFrom(_, _)
SubDegreesFrom(s, i) ==
  LET j == NextIn(s, i, Digits)
      e == DegreeMatch(s, j)
  IN IF j > Len(s) THEN Slice(s, i, j)
     ELSE IF e # 0 THEN Slice(s, i, j) \o DegreeReplacement(s, j, e) \o SubDegreesFrom(s, e)
     ELSE Slice(s, i, j + 1) \o SubDegreesFrom(s, j + 1)

SubDegrees(s) == SubDegreesFrom(s, 1)

\* the subscript pattern with (\d) for (\d+): one digit only
SubscriptMatch_OneDigit(s, i) ==
  IF /\ i + 1 <= Len(s)
     /\ WordBoundary(s, i)
     /\ \A u \in UnitWords : ~StartsWithAt(s, i, u)
     /\ s[i] \in Letters
     /\ s[i + 1] \in Digits
     /\ WordBoundary(s, i + 2)
  THEN i + 2 ELSE 0

\* 4b. \b(?!mH|...|atm)([a-zA-Z])(\d+)\b matched at i: the end of the match,
\* or 0
SubscriptMatch(s, i) ==
  LET d == RunEnd(s, i + 1, Digits)
  IN IF /\ i <= Len(s)
        /\ WordBoundary(s, i)
        /\ \A u \in UnitWords : ~StartsWithAt(s, i, u)
        /\ s[i] \in Letters
        /\ d > i + 1
        /\ WordBoundary(s, d)
     THEN d ELSE 0

RECURSIVE SubSubscriptsFrom(_, _)
SubSubscriptsFrom(s, i) ==
  LET j == FirstOf(s, {k \in i..Len(s) : SubscriptMatch(s, k) # 0})
      e == SubscriptMatch(s, j)
  IN IF j > Len(s) THEN Slice(s, i, j)
     ELSE Slice(s, i, j) \o <<s[j], "_", "{">> \o Slice(s, j + 1, e) \o <<"}">>
          \o SubSubscriptsFrom(s, e)

SubSubscripts(s) == SubSubscriptsFrom(s, 1)

\* 5. the five function names, each a substring replacement
SubFunctions(s) ==
  LET t1 == replace(s, L_tan, <<BS>> \o L_tan)
      t2 == replace(t1, L_sin, <<BS>> \o L_sin)
      t3 == replace(t2, L_cos, <<BS>> \o L_cos)
      t4 == replace(t3, L_log, <<BS>> \o L_log)
  IN replace(t4, L_ln, <<BS>> \o L_ln)

\* 6a. \\vec([a-zA-Z0-9]+) -> \vec{\1}
VecArgEnd(s, p) == RunEnd(s, p, AlNum)

RECURSIVE SubVecFrom(_, _)
SubVecFrom(s, i) ==
  LET j == NextIn(s, i, {BS})
      p == j + Len(W_vec)
      e == IF StartsWithAt(s, j, W_vec) THEN VecArgEnd(s, p) ELSE 0
  IN IF j > Len(s) THEN Slice(s, i, j)
     ELSE IF e > p
     THEN Slice(s, i, j) \o W_vec \o <<"{">> \o Slice(s, p, e) \o <<"}">> \o SubVecFrom(s, e)
     ELSE Slice(s, i, j + 1) \o SubVecFrom(s, j + 1)

SubVec(s) == SubVecFrom(s, 1)

\* the hat pattern with the group of the vec pattern, ([a-zA-Z0-9]+)
HatArgEnd_Run(s, p) == RunEnd(s, p, AlNum)

\* 6b. \\hat([a-zA-Z]) -> \hat{\1}: one letter
HatArgEnd(s, p) == IF p <= Len(s) /\ s[p] \in Letters THEN p + 1 ELSE p

RECURSIVE SubHatFrom(_, _)
SubHatFrom(s, i) ==
  LET j == NextIn(s, i, {BS})
      p == j + Len(W_hat)
      e == IF StartsWithAt(s, j, W_hat) THEN HatArgEnd(s, p) ELSE 0
  IN IF j > Len(s) THEN Slice(s, i, j)
     ELSE IF e > p
     THEN Slice(s, i, j) \o W_hat \o <<"{">> \o Slice(s, p, e) \o <<"}">> \o SubHatFrom(s, e)
     ELSE Slice(s, i, j + 1) \o SubHatFrom(s, j + 1)

SubHat(s) == SubHatFrom(s, 1)

\* 7. re.search(r'[=+\-*/\d]|\\(sqrt|...|ln)', text) or re.search(r'E_{', text)
ShouldWrap(s) ==
  \/ \E i \in 1..Len(s) : s[i] \in WrapChars
  \/ \E c \in WrapCommands : Contains(s, <<BS>> \o c)
  \/ Contains(s, <<"E", "_", "{">>)

\* the guard testing the display delimiters \[ and \] instead
AlreadyWrapped_Display(s) == startswith(s, <<BS, "[">>) /\ endswith(s, <<BS, "]">>)

\* the already-wrapped guard
AlreadyWrapped(s) == startswith(s, OpenDelim) /\ endswith(s, CloseDelim)

\* the rewrites 1 to 6 composed, on the normalised text
Rewrite(s) ==
  LET t1 == {ReplaceSymbols(x) : x \in {s}}
      t2 == {SubFractions(x) : x \in t1}
      t3 == {SubRootSign(x) : x \in t2}
      t4 == {SubRootWord(x) : x \in t3}
      t5 == {SubDegrees(x) : x \in t4}
      t6 == {SubSubscripts(x) : x \in t5}
      t7 == {SubFunctions(x) : x \in t6}
      t8 == {SubVec(x) : x \in t7}
  IN The({SubHat(x) : x \in t8})

convert_plain_math_to_latex(text) ==
  LET stripped == The({strip(x) : x \in {RemoveInvisible(text)}})
      rewritten == The({Rewrite(x) : x \in {stripped}})
  IN IF text = <<>> THEN text
     ELSE IF stripped = <<>> THEN stripped
     ELSE IF AlreadyWrapped(stripped) THEN stripped
     ELSE IF ShouldWrap(rewritten) THEN OpenDelim \o rewritten \o CloseDelim
     ELSE stripped

\* ------------------------------------------------------------------------
\* Markup: what BeautifulSoup(html_content, 'html.parser') holds. A fragment
\* is a sequence of nodes; a node is a text leaf (kind "text", its string s)
\* or an element (kind "tag": name, ordered attributes, children).
\* ------------------------------------------------------------------------
T_div == <<"d", "i", "v">>
T_span == <<"s", "p", "a", "n">>
T_h6 == <<"h", "6">>
T_table == <<"t", "a", "b", "l", "e">>
T_tr == <<"t", "r">>
T_td == <<"t", "d">>
T_style == <<"s", "t", "y", "l", "e">>
T_script == <<"s", "c", "r", "i", "p", "t">>
T_input == <<"i", "n", "p", "u", "t">>
T_label == <<"l", "a", "b", "e", "l">>
T_form == <<"f", "o", "r", "m">>
T_p == <<"p">>
T_a == <<"a">>
T_img == <<"i", "m", "g">>
T_br == <<"b", "r">>
T_pre == <<"p", "r", "e">>
T_fmath == <<"f", "m", "a", "t", "h">>
T_mjx == <<"m", "j", "x", "-", "c", "o", "n", "t", "a", "i", "n", "e", "r">>
K_src == <<"s", "r", "c">>
K_alt == <<"a", "l", "t">>
K_href == <<"h", "r", "e", "f">>
K_onclick == <<"o", "n", "c", "l", "i", "c", "k">>
K_class == <<"c", "l", "a", "s", "s">>

TextNode(s) == [kind |-> "text", name |-> <<>>, attrs |-> <<>>, kids |-> <<>>, s |-> s]

Element(name, attrs, kids) ==
  [kind |-> "tag", name |-> name, attrs |-> attrs, kids |-> kids, s |-> <<>>]

\* the elements html.parser closes as soon as they open: they hold no child
VoidTags == {T_img, T_br, T_input}

\* soup.find_all(['fmath', 'mjx-container'])
math_tags == {T_fmath, T_mjx}

\* the strings a script or style element holds are not text to get_text
NonTextTags == {T_script, T_style}

\* math_tag.get_text(strip=True): the strings below the nodes of f, each
\* stripped, the empty ones left out, joined
RECURSIVE get_text(_)
get_text(f) ==
  IF f = <<>> THEN <<>>
  ELSE LET n == Head(f)
       IN (IF n.kind = "text" THEN strip(n.s)
           ELSE IF n.name \in NonTextTags THEN <<>>
           ELSE get_text(n.kids)) \o get_text(Tail(f))

\* 1. every math container is replaced by its text
RECURSIVE ExtractMath(_)
ExtractMath(f) ==
  IF f = <<>> THEN <<>>
  ELSE LET n == Head(f)
       IN (IF n.kind = "text" THEN <<n>>
           ELSE IF n.name \in math_tags THEN <<TextNode(get_text(n.kids))>>
           ELSE <<[n EXCEPT !.kids = ExtractMath(n.kids)]>>) \o ExtractMath(Tail(f))

\* v_str.rstrip('\\')
RECURSIVE rstripBackslash(_)
rstripBackslash(s) ==
  IF s # <<>> /\ s[Len(s)] = BS THEN rstripBackslash(SubSeq(s, 1, Len(s) - 1)) ELSE s

attrs_to_keep == {K_src, K_alt, K_href}

\* the tags whose attributes are filtered instead of cleared
AttrTags == {T_img, T_a}

\* the value kept for key k
CleanValue(k, v) ==
  IF k \in {K_src, K_href} THEN strip(rstripBackslash(strip(v))) ELSE strip(v)

\* the filter without its test `if k in attrs_to_keep`
KeepsAttr_AnyKey(name, k) == name \in AttrTags

KeepsAttr(name, k) == name \in AttrTags /\ k \in attrs_to_keep

\* the attribute mapping an element of this name is left with
CleanAttrs(name, attrs) ==
  LET kept == SelectSeq(attrs, LAMBDA a : KeepsAttr(name, a.k))
  IN [i \in 1..Len(kept) |-> [k |-> kept[i].k, v |-> CleanValue(kept[i].k, kept[i].v)]]

\* 2. for tag in soup.find_all(True): the attributes are cleared or filtered
RECURSIVE StripAttrs(_)
StripAttrs(f) ==
  [i \in 1..Len(f) |->
     IF f[i].kind = "text" THEN f[i]
     ELSE [f[i] EXCEPT !.attrs = CleanAttrs(f[i].name, f[i].attrs),
                       !.kids = StripAttrs(f[i].kids)]]

discard_tags ==
  <<T_div, T_span, T_h6, T_table, T_tr, T_td, T_style, T_script, T_input, T_label, T_form>>

\* tag.name in ['style', 'script']: decompose() instead of unwrap()
Decomposed == {T_style, T_script}

\* every discard tag decomposed
DiscardedAs_Decompose(tag_name, kids) == <<>>

\* every discard tag unwrapped, style and script too
DiscardedAs_Unwrap(tag_name, kids) == kids

\* what one element named tag_name is replaced by: nothing (decompose) or
\* its children (unwrap)
DiscardedAs(tag_name, kids) == IF tag_name \in Decomposed THEN <<>> ELSE kids

\* for tag in soup.find_all(tag_name): every element of that name, at any
\* depth, is decomposed or unwrapped
RECURSIVE DiscardTag(_, _)
DiscardTag(f, tag_name) ==
  IF f = <<>> THEN <<>>
  ELSE LET n == Head(f)
       IN (IF n.kind = "text" THEN <<n>>
           ELSE IF n.name = tag_name THEN DiscardedAs(tag_name, DiscardTag(n.kids, tag_name))
           ELSE <<[n EXCEPT !.kids = DiscardTag(n.kids, tag_name)]>>)
          \o DiscardTag(Tail(f), tag_name)

\* for tag_name in discard_tags, from the i-th name on
RECURSIVE DiscardFrom(_, _)
DiscardFrom(f, i) ==
  IF i > Len(discard_tags) THEN f ELSE DiscardFrom(DiscardTag(f, discard_tags[i]), i + 1)

DiscardTags(f) == DiscardFrom(f, 1)

\* the minimal formatter of the serializer: &, < and > become entities
EscapeText(s) ==
  replace(replace(replace(s, <<"&">>, <<"&", "a", "m", "p", ";">>),
                  <<"<">>, <<"&", "l", "t", ";">>),
          <<">">>, <<"&", "g", "t", ";">>)

RECURSIVE AttrsStr(_)
AttrsStr(attrs) ==
  IF attrs = <<>> THEN <<>>
  ELSE <<" ">> \o Head(attrs).k \o <<"=", "\"">> \o EscapeText(Head(attrs).v) \o <<"\"">>
       \o AttrsStr(Tail(attrs))

\* soup.decode_contents(): the fragment as a string
RECURSIVE decode_contents(_)
decode_contents(f) ==
  IF f = <<>> THEN <<>>
  ELSE LET n == Head(f)
       IN (IF n.kind = "text" THEN EscapeText(n.s)
           ELSE IF n.name \in VoidTags /\ n.kids = <<>>
           THEN <<"<">> \o n.name \o AttrsStr(n.attrs) \o <<"/", ">">>
           ELSE <<"<">> \o n.name \o AttrsStr(n.attrs) \o <<">">> \o decode_contents(n.kids)
                \o <<"<", "/">> \o n.name \o <<">">>)
          \o decode_contents(Tail(f))

\* BeautifulSoup(str(soup.decode_contents()), 'html.parser'): the tree parsed
\* back from its own serialization. Elements and attributes come back as they
\* were; text leaves that had become neighbours come back as one leaf, and an
\* empty string comes back as no leaf.
RECURSIVE Reparse(_)
Reparse(f) ==
  IF f = <<>> THEN <<>>
  ELSE LET n == Head(f)
           rest == Reparse(Tail(f))
       IN IF n.kind = "tag" THEN <<[n EXCEPT !.kids = Reparse(n.kids)]>> \o rest
          ELSE IF n.s = <<>> THEN rest
          ELSE IF rest # <<>> /\ Head(rest).kind = "text"
          THEN <<TextNode(n.s \o Head(rest).s)>> \o Tail(rest)
          ELSE <<n>> \o rest

\* for node in soup.find_all(string=True): a string whose parent is not a
\* script or style element is replaced by its conversion
RECURSIVE ConvertStrings(_, _)
ConvertStrings(f, parent) ==
  [i \in 1..Len(f) |->
     IF f[i].kind = "text"
     THEN (IF parent \in {T_script, T_style} THEN f[i]
           ELSE TextNode(convert_plain_math_to_latex(f[i].s)))
     ELSE [f[i] EXCEPT !.kids = ConvertStrings(f[i].kids, f[i].name)]]

\* the tree apply_latex_conversion_to_html serializes; the document itself is
\* the parent of the top-level strings
ConvertedSoup(f) == The({ConvertStrings(y, <<>>) : y \in {Reparse(x) : x \in {f}}})

apply_latex_conversion_to_html(f) == The({decode_contents(x) : x \in {ConvertedSoup(f)}})

\* ------------------------------------------------------------------------
\* The post-conversion cleanup of clean_html_and_extract_math_text, on the
\* serialized string
\* ------------------------------------------------------------------------
\* re.sub(r'\s{2,}', ' ', cleaned_html)
RECURSIVE CollapseWhitespaceFrom(_, _)
CollapseWhitespaceFrom(s, i) ==
  LET j == NextIn(s, i, Whitespace)
      e == RunEnd(s, j, Whitespace)
  IN IF j > Len(s) THEN Slice(s, i, j)
     ELSE IF e >= j + 2 THEN Slice(s, i, j) \o <<" ">> \o CollapseWhitespaceFrom(s, e)
     ELSE Slice(s, i, j + 1) \o CollapseWhitespaceFrom(s, j + 1)

CollapseWhitespace(s) == CollapseWhitespaceFrom(s, 1)

L_br == <<"<", "b", "r">>
BrTag == <<"<", "b", "r", "/", ">">>

\* <br\s*/?>\s* matched at i: the end of the match, or 0
BrUnitEnd(s, i) ==
  LET a == RunEnd(s, i + Len(L_br), Whitespace)
      b == IF a <= Len(s) /\ s[a] = "/" THEN a + 1 ELSE a
  IN IF StartsWithAt(s, i, L_br) /\ b <= Len(s) /\ s[b] = ">"
     THEN RunEnd(s, b + 1, Whitespace) ELSE 0

\* (<br\s*/?>\s*){2,} matched at i, n repetitions already matched up to i: the
\* end of the match, or 0
RECURSIVE BrRunEnd(_, _, _)
BrRunEnd(s, i, n) ==
  LET e == BrUnitEnd(s, i)
  IN IF e # 0 THEN BrRunEnd(s, e, n + 1) ELSE IF n >= 2 THEN i ELSE 0

\* re.sub(r'(<br\s*/?>\s*){2,}', '<br/>', cleaned_html)
RECURSIVE CollapseBreaksFrom(_, _)
CollapseBreaksFrom(s, i) ==
  LET j == NextIn(s, i, {"<"})
      e == BrRunEnd(s, j, 0)
  IN IF j > Len(s) THEN Slice(s, i, j)
     ELSE IF e # 0 THEN Slice(s, i, j) \o BrTag \o CollapseBreaksFrom(s, e)
     ELSE Slice(s, i, j + 1) \o CollapseBreaksFrom(s, j + 1)

CollapseBreaks(s) == CollapseBreaksFrom(s, 1)

L_http == <<"h", "t", "t", "p">>
L_colonSlashes == <<":", "/", "/">>
\* the complement of [^\s"'<>]
UrlStop == Whitespace \cup {"\"", "'", "<", ">"}
\* ["'\s>] of the lookahead
UrlLookahead == Whitespace \cup {"\"", "'", ">"}

\* the end (exclusive) of the longest run of characters outside class C from i
RECURSIVE RunEndNot(_, _, _)
RunEndNot(s, i, C) == IF i <= Len(s) /\ s[i] \notin C THEN RunEndNot(s, i + 1, C) ELSE i

\* (https?://[^\s"'<>]+)\\+(?=(["'\s>])) matched at i: the position of the
\* character the lookahead captures, or 0. The backslash is in the class of
\* group 1, which gives back one backslash to \\+ and no more.
UrlMatch(s, i) ==
  LET a == i + Len(L_http)
      b == IF a <= Len(s) /\ s[a] = "s" THEN a + 1 ELSE a
      c == b + Len(L_colonSlashes)
      e == RunEndNot(s, c, UrlStop)
  IN IF /\ StartsWithAt(s, i, L_http)
        /\ StartsWithAt(s, b, L_colonSlashes)
        /\ e - 1 > c
        /\ s[e - 1] = BS
        /\ e <= Len(s) /\ s[e] \in UrlLookahead
     THEN e ELSE 0

\* re.sub(..., r'\1\2', cleaned_html): group 1 and the captured lookahead
\* character are written; the scan goes on at that character, which the
\* lookahead did not consume
RECURSIVE StripUrlBackslashFrom(_, _)
StripUrlBackslashFrom(s, i) ==
  LET j == NextIn(s, i, {"h"})
      e == UrlMatch(s, j)
  IN IF j > Len(s) THEN Slice(s, i, j)
     ELSE IF e # 0 THEN Slice(s, i, e - 1) \o <<s[e]>> \o StripUrlBackslashFrom(s, e)
     ELSE Slice(s, i, j + 1) \o StripUrlBackslashFrom(s, j + 1)

StripUrlBackslash(s) == StripUrlBackslashFrom(s, 1)

\* str.lower(), on the ASCII letters
LowerOf(c) ==
  CASE c = "A" -> "a" [] c = "B" -> "b" [] c = "C" -> "c" [] c = "D" -> "d"
    [] c = "E" -> "e" [] c = "F" -> "f" [] c = "G" -> "g" [] c = "H" -> "h"
    [] c = "I" -> "i" [] c = "J" -> "j" [] c = "K" -> "k" [] c = "L" -> "l"
    [] c = "M" -> "m" [] c = "N" -> "n" [] c = "O" -> "o" [] c = "P" -> "p"
    [] c = "Q" -> "q" [] c = "R" -> "r" [] c = "S" -> "s" [] c = "T" -> "t"
    [] c = "U" -> "u" [] c = "V" -> "v" [] c = "W" -> "w" [] c = "X" -> "x"
    [] c = "Y" -> "y" [] c = "Z" -> "z" [] OTHER -> c

lower(s) == [i \in 1..Len(s) |-> LowerOf(s[i])]

block_tags ==
  {<<"<", "p">>, <<"<", "i", "m", "g">>, <<"<", "u", "l">>, <<"<", "o", "l">>,
   <<"<", "l", "i">>, <<"<", "b", "r">>, <<"<", "s", "t", "r", "o", "n", "g">>,
   <<"<", "e", "m">>, <<"<", "a">>, <<"<", "h", "1">>, <<"<", "h", "2">>,
   <<"<", "h", "3">>, <<"<", "h", "4">>, <<"<", "h", "5">>}

\* cleaned_html and not any(lower_html.startswith(tag) for tag in block_tags)
NeedsParagraph(s) == s # <<>> /\ \A t \in block_tags : ~startswith(lower(s), t)

\* 4. the paragraph wrap
BlockWrap(s) ==
  IF NeedsParagraph(s) THEN <<"<", "p", ">">> \o s \o <<"<", "/", "p", ">">> ELSE s

\* the string cleanup between the conversion and the paragraph wrap
PostCleanup(s) ==
  LET s1 == {strip(y) : y \in {CollapseWhitespace(x) : x \in {s}}}
      s2 == {strip(y) : y \in {CollapseBreaks(x) : x \in s1}}
      s3 == {replace(x, <<"<", "b", "r", ">">>, BrTag) : x \in s2}
  IN The({StripUrlBackslash(x) : x \in s3})

\* the tree after the structural steps 1 and 2 of the sanitizer
Sanitized(f) ==
  LET f1 == {ExtractMath(x) : x \in {f}}
      f2 == {StripAttrs(x) : x \in f1}
  IN The({DiscardTags(x) : x \in f2})

clean_html_and_extract_math_text(f) ==
  IF f = <<>> THEN <<>>
  ELSE LET soup1 == {Sanitized(x) : x \in {f}}
           s1 == {apply_latex_conversion_to_html(x) : x \in soup1}
           s2 == {PostCleanup(x) : x \in s1}
       IN The({BlockWrap(x) : x \in s2})

\* ------------------------------------------------------------------------
\* The state: a caller of the converter holds a text, converts it, and may
\* feed the result in again (a repeated pass over the same leaf); a caller of
\* the sanitizer holds a parsed fragment and sanitizes it.
\* ------------------------------------------------------------------------
VARIABLES
  text,     \* the argument of convert_plain_math_to_latex
  result,   \* what it returned
  again,    \* what it returned for result
  html,     \* the argument of clean_html_and_extract_math_text, parsed
  soup,     \* the tree that the sanitizer serializes
  cleaned,  \* the string it returned
  pc

vars == <<text, result, again, html, soup, cleaned, pc>>

\* the longest input, in pieces
MaxPieces == 3

\* what the inputs are made of: the notation of the scraped questions
Pieces ==
  {<<"1">>, <<"u">>, <<" ">>, <<"/">>, <<ROOT>>, L_sqrt, <<RING>>, <<DEG>>, L_circ,
   <<ARROW>>, <<"^">>, L_sin, <<ALPHA>>, <<ZWNJ>>, OpenDelim, CloseDelim}

RECURSIVE Texts(_)
Texts(n) ==
  IF n = 0 THEN {<<>>}
  ELSE LET T == Texts(n - 1) IN T \cup {t \o p : t \in T, p \in Pieces}

\* the longest numerator or denominator token, in characters
MaxToken == 2

RECURSIVE Tokens(_)
Tokens(n) ==
  IF n = 0 THEN {<<>>}
  ELSE LET T == Tokens(n - 1) IN T \cup {t \o <<c>> : t \in T, c \in {"1", "3", "u", "T"}}

\* a numerator, a slash and a root expression, as in 1/U+221A3
FractionTexts ==
  {n \o <<sl, ROOT>> \o d : n \in Tokens(MaxToken) \ {<<>>}, sl \in FracSlash,
                             d \in Tokens(MaxToken) \ {<<>>}}

InitConvert ==
  /\ text \in Texts(MaxPieces) \cup FractionTexts
  /\ result = <<>>
  /\ again = <<>>
  /\ html = <<>>
  /\ soup = <<>>
  /\ cleaned = <<>>
  /\ pc = "ready"

\* result = convert_plain_math_to_latex(text)
Convert ==
  /\ pc = "ready"
  /\ result' = convert_plain_math_to_latex(text)
  /\ pc' = "converted"
  /\ UNCHANGED <<text, again, html, soup, cleaned>>

\* again = convert_plain_math_to_latex(result)
Reconvert ==
  /\ pc = "converted"
  /\ again' = convert_plain_math_to_latex(result)
  /\ pc' = "reconverted"
  /\ UNCHANGED <<text, result, html, soup, cleaned>>

NextConvert == Convert \/ Reconvert

SpecConvert == InitConvert /\ [][NextConvert]_vars

\* ------------------------------------------------------------------------
\* The fragments the sanitizer is given
\* ------------------------------------------------------------------------
\* the deepest nesting of wrapper elements
MaxDepth == 2

V_url == <<" ", "h", "t", "t", "p", ":", "/", "/", "x", BS, BS, " ">>

\* every attribute at once: the three the code names and two it does not
AllAttrs ==
  <<[k |-> K_href, v |-> V_url], [k |-> K_onclick, v |-> <<"y">>],
    [k |-> K_src, v |-> V_url], [k |-> K_class, v |-> <<"x">>],
    [k |-> K_alt, v |-> <<"t", " ">>]>>

ClassAttr == <<[k |-> K_class, v |-> <<"x">>]>>

\* the text of a script or style element: "z" occurs in no other text
ScriptText == <<"z", "=", "1">>

\* the strings of the text leaves
TextPool ==
  {<<"A", "0">>, <<"u">>, <<"h", "t", "t", "p", ":", "/", "/", "x", BS, " ", " ", "u">>}

Leaves ==
  {TextNode(t) : t \in TextPool}
  \cup {Element(T_img, AllAttrs, <<>>), Element(T_br, <<>>, <<>>),
        Element(T_script, ClassAttr, <<TextNode(ScriptText)>>),
        Element(T_style, <<>>, <<TextNode(ScriptText)>>)}

\* the parser never leaves two text leaves side by side
NoTextPair(x, y) == ~(x.kind = "text" /\ y.kind = "text")

\* the fragments without a wrapper: up to two leaves, or a script or style
\* element between two texts
Cores ==
  {<<>>} \cup {<<x>> : x \in Leaves}
  \cup {q \in Leaves \X Leaves : NoTextPair(q[1], q[2])}
  \cup {<<TextNode(t), x, TextNode(u)>> :
          t \in TextPool, u \in TextPool,
          x \in {l \in Leaves : l.kind = "tag" /\ l.name \in Decomposed}}

\* the elements put around a fragment: name and attributes
InnerWrappers ==
  {<<T_div, AllAttrs>>, <<T_span, <<>>>>, <<T_h6, ClassAttr>>, <<T_table, <<>>>>,
   <<T_tr, <<>>>>, <<T_td, ClassAttr>>, <<T_input, ClassAttr>>, <<T_label, <<>>>>,
   <<T_form, AllAttrs>>, <<T_p, AllAttrs>>, <<T_a, AllAttrs>>, <<T_fmath, <<>>>>,
   <<T_pre, <<>>>>}

OuterWrappers == {<<T_div, ClassAttr>>, <<T_span, AllAttrs>>, <<T_p, <<>>>>, <<T_fmath, <<>>>>}

\* <name attrs>f</name> as the parser reads it: a void element is closed at
\* once and what follows it becomes its siblings
Wrap(w, f) ==
  IF w[1] \in VoidTags THEN <<Element(w[1], w[2], <<>>)>> \o f
  ELSE <<Element(w[1], w[2], f)>>

\* the fragments of at most d nested wrappers: the innermost wrapper stands
\* alone or has a text after it
RECURSIVE Fragments(_)
Fragments(d) ==
  IF d = 0 THEN Cores
  ELSE LET F == Fragments(d - 1)
           W == IF d = 1 THEN InnerWrappers ELSE OuterWrappers
       IN F \cup {Wrap(w, f) : w \in W, f \in F}
            \cup {Wrap(w, f) \o <<TextNode(<<"u">>)>> :
                    w \in {x \in W : d = 1 /\ x[1] \notin VoidTags}, f \in F}

InitClean ==
  /\ html \in Fragments(MaxDepth)
  /\ soup = <<>>
  /\ cleaned = <<>>
  /\ text = <<>>
  /\ result = <<>>
  /\ again = <<>>
  /\ pc = "ready"

\* cleaned = clean_html_and_extract_math_text(html)
Clean ==
  /\ pc = "ready"
  /\ soup' = ConvertedSoup(Sanitized(html))
  /\ cleaned' = clean_html_and_extract_math_text(html)
  /\ pc' = "cleaned"
  /\ UNCHANGED <<text, result, again, html>>

NextClean == Clean

SpecClean == InitClean /\ [][NextClean]_vars

\* ------------------------------------------------------------------------
\* Properties of the converter
\* ------------------------------------------------------------------------
AllIn(s, C) == \A i \in 1..Len(s) : s[i] \in C

Wrapped(s) == OpenDelim \o s \o CloseDelim

FunctionNames == {L_tan, L_sin, L_cos, L_log, L_ln}

\* none of the words the root, degree and function-name rewrites look for
NoRewriteWord(s) == \A w \in FunctionNames \cup {L_sqrt, L_circ} : ~Contains(s, w)

\* text is numerator, slash, root sign, denominator token; k is the slash
IsFractionOverRoot(s, k) ==
  /\ k > 1 /\ k + 2 <= Len(s)
  /\ AllIn(SubSeq(s, 1, k - 1), FracChars)
  /\ s[k] \in FracSlash /\ s[k + 1] = ROOT
  /\ AllIn(SubSeq(s, k + 2, Len(s)), AlNum)

\* C1: a numerator token, a slash and a root expression (1/U+221A3) convert to
\* an output that contains \frac{numerator}{ followed by the converted root.
C1_FractionOverRoot ==
  pc = "converted" =>
    \A k \in 1..Len(text) :
      IsFractionOverRoot(text, k) =>
        Contains(result, W_frac \o <<"{">> \o SubSeq(text, 1, k - 1) \o <<"}", "{">> \o W_sqrt)

DegreeMarkers == {<<RING>>, <<DEG>>, L_circ}

\* C2: a digit run d followed by the ring operator, the degree sign or the
\* word circ converts to an output that contains d^{\circ}: the digits stay.
C2_DegreeKeepsDigits ==
  pc = "converted" =>
    \A k \in 1..Len(text) : \A m \in DegreeMarkers :
      (AllIn(SubSeq(text, 1, k), Digits) /\ SubSeq(text, k + 1, Len(text)) = m) =>
        Contains(result, SubSeq(text, 1, k) \o W_degree)

\* text is one letter followed by a non-empty digit run
IsLetterDigits(s) == Len(s) >= 2 /\ s[1] \in Letters /\ AllIn(Tail(s), Digits)

\* C3: a standalone token of one letter and a digit run converts to
\* \(letter_{digits}\).
C3_SubscriptWrapped ==
  (pc = "converted" /\ IsLetterDigits(text)) =>
    result = Wrapped(<<text[1], "_", "{">> \o Tail(text) \o <<"}">>)

C3_Witness ==
  /\ pc = "converted" /\ IsLetterDigits(text) /\ Len(text) = 3
  /\ result = Wrapped(<<text[1], "_", "{">> \o Tail(text) \o <<"}">>)

\* text is a marker character followed by an identifier run
IsMarkerRun(s, marker) == Len(s) >= 2 /\ s[1] = marker /\ AllIn(Tail(s), AlNum)

\* C4 as stated: both markers wrap the whole identifier run r that follows:
\* U+2192 r converts to \(\vec{r}\) and ^r converts to \(\hat{r}\).
C4_BothMarkersWrapRun ==
  pc = "converted" =>
    /\ IsMarkerRun(text, ARROW) => result = Wrapped(W_vec \o <<"{">> \o Tail(text) \o <<"}">>)
    /\ IsMarkerRun(text, "^") => result = Wrapped(W_hat \o <<"{">> \o Tail(text) \o <<"}">>)

\* what the hat marker followed by the run r becomes: the first letter alone
\* is brace-wrapped, and a run that begins with a digit gets no braces
HatOfRun(r) ==
  IF r[1] \in Letters THEN W_hat \o <<"{", r[1], "}">> \o Tail(r) ELSE W_hat \o r

\* C4 amended: for a run r such that the marker followed by r holds none of
\* the words tan, sin, cos, log, ln, sqrt, circ: U+2192 r converts to
\* \(\vec{r}\), the whole run wrapped, and ^r converts to \(\hat{c}rest\), the
\* first letter c of r alone wrapped (no braces when r begins with a digit).
C4_VecWrapsRunHatWrapsLetter ==
  pc = "converted" =>
    /\ (IsMarkerRun(text, ARROW) /\ NoRewriteWord(W_vec \o Tail(text))) =>
         result = Wrapped(W_vec \o <<"{">> \o Tail(text) \o <<"}">>)
    /\ (IsMarkerRun(text, "^") /\ NoRewriteWord(W_hat \o Tail(text))) =>
         result = Wrapped(HatOfRun(Tail(text)))

C4_Witness ==
  /\ pc = "converted" /\ IsMarkerRun(text, "^") /\ Len(text) >= 3
  /\ text[2] \in Letters /\ NoRewriteWord(W_hat \o Tail(text))
  /\ result = Wrapped(W_hat \o <<"{", text[2], "}">> \o SubSeq(text, 3, Len(text)))

\* text is made of letters and spaces only
IsProse(s) == AllIn(s, Letters \cup {" "})

\* C5: a text of letters and spaces only is returned unchanged apart from
\* the trimming.
C5_ProseUnchanged == (pc = "converted" /\ IsProse(text)) => result = strip(text)

\* C6: converting the output of a conversion gives that output back.
C6_Idempotent == pc = "reconverted" => again = result

C6_Witness ==
  /\ pc = "reconverted" /\ ~AlreadyWrapped(text) /\ AlreadyWrapped(result)
  /\ again = result

\* a run of digits only, or of letters only with no function name in it:
\* no rewrite after the root rewrites applies to it
IsPlainRun(r) ==
  /\ r # <<>>
  /\ AllIn(r, Digits) \/ (AllIn(r, Letters) /\ NoRewriteWord(r))

CountOf(s, w) == Cardinality({i \in 1..Len(s) : StartsWithAt(s, i, w)})

\* C10: a root sign or the word sqrt followed by a run r converts to an output
\* that holds the root command once, as \sqrt{r}: one backslash before it and
\* one pair of braces around r.
C10_RootRewrittenOnce ==
  pc = "converted" =>
    \A prefix \in {<<ROOT>>, L_sqrt} :
      (startswith(text, prefix) /\ IsPlainRun(SubSeq(text, Len(prefix) + 1, Len(text)))) =>
        /\ Contains(result, W_sqrt \o <<"{">> \o SubSeq(text, Len(prefix) + 1, Len(text)) \o <<"}">>)
        /\ CountOf(result, L_sqrt) = 1
        /\ ~Contains(result, <<BS, BS>>)

\* ------------------------------------------------------------------------
\* Properties of the sanitizer
\* ------------------------------------------------------------------------
P_open == <<"<", "p", ">">>
P_close == <<"<", "/", "p", ">">>

\* the discard tags whose content is kept
TransparentTags == {T_div, T_span, T_h6, T_table, T_tr, T_td, T_input, T_label, T_form}

\* the text t that f holds inside nothing but transparent tags, or <<>> when
\* f is not such a nest (an input element, closed at once, stands before
\* what was written inside it)
RECURSIVE NestedText(_)
NestedText(f) ==
  IF f = <<>> THEN <<>>
  ELSE IF f[1].kind = "text" THEN (IF Len(f) = 1 THEN f[1].s ELSE <<>>)
  ELSE IF f[1].name \notin TransparentTags THEN <<>>
  ELSE IF f[1].name \in VoidTags THEN NestedText(Tail(f))
  ELSE IF Len(f) = 1 THEN NestedText(f[1].kids)
  ELSE <<>>

\* C7: a non-empty text t of letters and digits inside any nesting of
\* transparent discard tags, whatever their attributes, is sanitized to
\* <p>, the conversion of t, </p>.
C7_TransparentNestUnwrapped ==
  (pc = "cleaned" /\ NestedText(html) # <<>> /\ AllIn(NestedText(html), AlNum)) =>
    cleaned = P_open \o convert_plain_math_to_latex(NestedText(html)) \o P_close

\* <div class="x"><span>A0</span></div> gives <p>\(A_{0}\)</p>
C7_Witness ==
  /\ pc = "cleaned"
  /\ html = <<Element(T_div, ClassAttr, <<Element(T_span, <<>>, <<TextNode(<<"A", "0">>)>>)>>)>>
  /\ cleaned = P_open \o Wrapped(<<"A", "_", "{", "0", "}">>) \o P_close

\* the allowlist as C8 states it: one set of keys for each tag
StatedAllowlist(name) ==
  IF name = T_img THEN {K_src, K_alt} ELSE IF name = T_a THEN {K_href, K_alt} ELSE {}

\* the allowlist as amended: the same three keys for img and for a
SharedAllowlist(name) == IF name \in {T_img, T_a} THEN {K_src, K_alt, K_href} ELSE {}

AttrKeys(n) == {n.attrs[i].k : i \in 1..Len(n.attrs)}

RECURSIVE KeysWithinStated(_)
KeysWithinStated(f) ==
  \A i \in 1..Len(f) :
    f[i].kind = "tag" =>
      AttrKeys(f[i]) \subseteq StatedAllowlist(f[i].name) /\ KeysWithinStated(f[i].kids)

RECURSIVE KeysWithinShared(_)
KeysWithinShared(f) ==
  \A i \in 1..Len(f) :
    f[i].kind = "tag" =>
      AttrKeys(f[i]) \subseteq SharedAllowlist(f[i].name) /\ KeysWithinShared(f[i].kids)

\* C8 as stated: in the output every element keeps only keys of the allowlist
\* of its own tag: img at most src and alt, a at most href and alt, any other
\* element none.
C8_KeysWithinOwnAllowlist == pc = "cleaned" => KeysWithinStated(soup)

\* C8 amended: in the output an img and an a each keep at most src, alt and
\* href (one allowlist for both tags), and any other element keeps no
\* attribute; no other key of the input is written.
C8_KeysWithinSharedAllowlist ==
  pc = "cleaned" =>
    /\ KeysWithinShared(soup)
    /\ ~Contains(cleaned, K_onclick \o <<"=">>)
    /\ ~Contains(cleaned, K_class \o <<"=">>)

ImgKept ==
  <<"<", "i", "m", "g", " ", "h", "r", "e", "f", "=", "\"", "h", "t", "t", "p", ":", "/",
    "/", "x", "\"", " ", "s", "r", "c", "=", "\"", "h", "t", "t", "p", ":", "/", "/", "x",
    "\"", " ", "a", "l", "t", "=", "\"", "t", "\"", "/", ">">>

\* an img that came with href, onclick, src, class and alt keeps href, src, alt
C8_Witness ==
  /\ pc = "cleaned"
  /\ html = <<Element(T_img, AllAttrs, <<>>)>>
  /\ cleaned = ImgKept

\* f without its script and style elements
RECURSIVE WithoutScripts(_)
WithoutScripts(f) ==
  IF f = <<>> THEN <<>>
  ELSE LET n == Head(f)
       IN (IF n.kind = "text" THEN <<n>>
           ELSE IF n.name \in {T_script, T_style} THEN <<>>
           ELSE <<[n EXCEPT !.kids = WithoutScripts(n.kids)]>>) \o WithoutScripts(Tail(f))

\* C9: the output holds no script or style element and none of their text
\* (the character z is in no other text), wherever the element sits, and the
\* content around it is kept in order: the output is that of the fragment
\* with these elements taken out.
C9_ScriptsGone ==
  pc = "cleaned" =>
    /\ ~Contains(cleaned, <<"z">>)
    /\ ~Contains(cleaned, <<"<">> \o T_script)
    /\ ~Contains(cleaned, <<"<">> \o T_style)
    /\ cleaned = clean_html_and_extract_math_text(WithoutScripts(html))

\* <div class="x"><p ...>u<script class="x">z=1</script>A0</p></div>
C9_Witness ==
  /\ pc = "cleaned"
  /\ html = <<Element(T_div, ClassAttr,
                <<Element(T_p, AllAttrs,
                    <<TextNode(<<"u">>), Element(T_script, ClassAttr, <<TextNode(ScriptText)>>),
                      TextNode(<<"A", "0">>)>>)>>)>>
  /\ cleaned = P_open \o Wrapped(<<"u", "A", "0">>) \o P_close

\* the tag names C11 lists
ListedNames ==
  {T_p, T_img, <<"u", "l">>, <<"o", "l">>, <<"l", "i">>, T_br,
   <<"s", "t", "r", "o", "n", "g">>, <<"e", "m">>, T_a, <<"h", "1">>, <<"h", "2">>,
   <<"h", "3">>, <<"h", "4">>, <<"h", "5">>}

\* s begins with an opening tag whose tag name is name: "<", the name, and
\* then the end of the name (a space, "/" or ">")
BeginsWithTag(s, name) ==
  /\ startswith(s, <<"<">> \o name)
  /\ Len(s) >= Len(name) + 2
  /\ s[Len(name) + 2] \in {" ", "/", ">"}

\* C11: the result is empty or begins with an opening tag whose tag name is
\* one of p, img, ul, ol, li, br, strong, em, a, h1 to h5: a result that
\* begins with text or with an element of another name is wrapped in <p>.
C11_BeginsWithListedTag ==
  pc = "cleaned" => (cleaned = <<>> \/ \E name \in ListedNames : BeginsWithTag(cleaned, name))

====
